---- MODULE Spec2Model ----
(***************************************************************************)
(* Model of pkg/executor/executer_http.go: the HTTP executor of a template *)
(* (client construction, redirect policy, auto-calibration, the request    *)
(* loop with its matcher/extractor evaluation, and the locked output).     *)
(*                                                                         *)
(* Three specifications share the variables and the actions:               *)
(*   Spec        one executor, any request spec, sequential ExecuteHTTP    *)
(*               calls on any URLs, then Close;                            *)
(*   SpecClient  NewHTTPExecutor / makeHTTPClient over every proxy option, *)
(*               and the redirect policy driven by the client's redirect   *)
(*               loop;                                                     *)
(*   SpecConc    several executors built from the same options (shared     *)
(*               Writer and HTTPRequest) running concurrently.             *)
(***************************************************************************)
EXTENDS Integers, Sequences, FiniteSets, TLC

(* ------------------------------ bounds -------------------------------- *)
\* longest matcher list of a request spec
MaxMatchers == 2
\* longest extractor list of a request spec
MaxExtractors == 1
\* most compiled requests MakeHTTPRequest returns for one URL
MaxRequests == 2
\* executors running concurrently in SpecConc
NumExecutors == 2
\* longest matcher list of the request spec the executors of SpecConc share
MaxConcMatchers == 1
\* most probe requests MakeHTTPRequestForAutoConfigure returns for one URL
MaxProbes == 2
\* longest redirect chain a server produces in SpecClient
MaxHops == 13
\* largest MaxRedirects option in SpecClient
MaxRedirectsOpt == 11

(* ------------------------- program constants -------------------------- *)
\* the redirect cap used when MaxRedirects is 0
DefaultMaxRedirects == 10
\* token lengths of the two calibration probes
ProbeLen16 == 16
ProbeLen32 == 32

(* --------------------------- input domains ---------------------------- *)
URLs == {"u1", "u2"}
\* matchers.BodyPart, matchers.HeaderPart, matchers.AllPart
BodyPart == "body"
HeaderPart == "header"
AllPart == "all"
Parts == {BodyPart, HeaderPart, AllPart}
\* matchers.ANDCondition, matchers.ORCondition
ANDCondition == "and"
ORCondition == "or"
\* what headersToString can return for a response ("" : no header line)
HeaderTexts == {"", "H"}
\* the header text of a response nobody has asked for yet
Unbuilt == "?"
\* what one extractor can produce for one response
ExtractOutputs == {<<>>, <<"b", "a", "b">>}

Matcher(type, part, target) ==
    [Type |-> type, Part |-> part, Target |-> target, Size |-> <<>>, Status |-> <<>>]
\* a nil *matchers.Matcher
NilMatcher == Matcher("nil", "", "")
\* a freshly allocated, zero-valued matchers.Matcher
ZeroMatcher == Matcher("", "", "")

\* the matchers a request spec is drawn from in Spec
MatcherKinds ==
    {Matcher("word", p, "") : p \in Parts}
        \cup {Matcher("word", BodyPart, "u1"), Matcher("auto", BodyPart, "")}
\* the matchers a request spec is drawn from in SpecConc
PlainMatcherKinds == {Matcher("word", BodyPart, ""), Matcher("auto", BodyPart, "")}
\* the extractors a request spec is drawn from: one that reads the body only and
\* one that reads body and headers
ExtractorKinds == {[Part |-> p] : p \in {BodyPart, AllPart}}

SeqsUpTo(S, n) == UNION {[1..k -> S] : k \in 0..n}

VARIABLES
    matchers,          \* e.httpRequest.Matchers (shared by every executor of the request spec)
    extractors,        \* e.httpRequest.Extractors
    matcherCondition,  \* e.httpRequest.GetMatchersCondition()
    opts,              \* HTTPOptions the executors are built from
    ex,                \* per executor: its fields and the position of its running call
    locks,             \* the mutexes currently held
    chain              \* SpecClient: the redirect chain of the request the client is sending

vars == <<matchers, extractors, matcherCondition, opts, ex, locks, chain>>

(* ----------------------- client construction -------------------------- *)
ProxyValues == {"", "http://proxy:8080", "://bad"}
SocksValues == {"", "socks5://user:pw@socks:1080", "://bad"}

\* url.Parse: (nil, err) for a malformed URL, the parsed URL otherwise
ParseURL(s) ==
    CASE s = "://bad" -> [err |-> TRUE, isNil |-> TRUE, host |-> "", user |-> ""]
      [] s = "http://proxy:8080" -> [err |-> FALSE, isNil |-> FALSE, host |-> "proxy:8080", user |-> ""]
      [] s = "socks5://user:pw@socks:1080" ->
             [err |-> FALSE, isNil |-> FALSE, host |-> "socks:1080", user |-> "user"]
      [] OTHER -> [err |-> FALSE, isNil |-> FALSE, host |-> "", user |-> ""]
\* var proxyURL *url.URL
NilURL == [err |-> FALSE, isNil |-> TRUE, host |-> "", user |-> ""]

NoClient == [dial |-> "none", proxy |-> "", follow |-> FALSE, max |-> 0]
\* a nil pointer dereference inside makeHTTPClient: the call never returns
PanicClient == [dial |-> "panic", proxy |-> "", follow |-> FALSE, max |-> 0]

\* the policy without its followRedirects test
makeCheckRedirectFunc_NoFollowTest(followRedirects, maxRedirects, n) ==
    IF maxRedirects = 0
    THEN (IF n > DefaultMaxRedirects THEN "stop" ELSE "follow")
    ELSE (IF n > maxRedirects THEN "stop" ELSE "follow")

\* the policy comparing with >= : one redirect short
makeCheckRedirectFunc_OffByOne(followRedirects, maxRedirects, n) ==
    IF ~followRedirects THEN "stop"
    ELSE IF maxRedirects = 0
         THEN (IF n >= DefaultMaxRedirects THEN "stop" ELSE "follow")
         ELSE (IF n >= maxRedirects THEN "stop" ELSE "follow")

\* makeCheckRedirectFunc(followRedirects, maxRedirects)(_, requests) with len(requests) = n:
\* "stop" is http.ErrUseLastResponse, "follow" is nil
makeCheckRedirectFunc(followRedirects, maxRedirects, n) ==
    IF ~followRedirects THEN "stop"
    ELSE IF maxRedirects = 0
         THEN (IF n > DefaultMaxRedirects THEN "stop" ELSE "follow")
         ELSE (IF n > maxRedirects THEN "stop" ELSE "follow")

\* makeHTTPClient(proxyURL, options); socksFails is whether proxy.SOCKS5 returns an error
makeHTTPClient(proxyURL, options, socksFails) ==
    LET socksURL == ParseURL(options.ProxySocksURL)
        dial == IF options.ProxySocksURL = "" THEN "direct"
                \* socksURL.Hostname() is evaluated whether or not the parse failed
                ELSE IF socksURL.isNil THEN "panic"
                ELSE IF socksFails THEN "direct"
                ELSE "socks"
    IN  IF dial = "panic" THEN PanicClient
        ELSE [dial |-> dial,
              proxy |-> IF proxyURL.isNil THEN "" ELSE proxyURL.host,
              follow |-> options.HTTPRequest.Redirects,
              max |-> options.HTTPRequest.MaxRedirects]

\* outputMutex: &sync.Mutex{} : a mutex of the executor's own
NewMutex(e) == e

NewEx(pc) ==
    [pc |-> pc, client |-> NoClient, mutex |-> 0, socksErr |-> FALSE,
     url |-> "", pending |-> <<>>, req |-> 0,
     cfgReq |-> <<>>, calIdx |-> 0, calLen |-> 0, calibErr |-> [ctx |-> "", cause |-> ""],
     \* what the first MakeHTTPRequestForAutoConfigure call returned
     first |-> [reqs |-> <<>>, err |-> FALSE],
     body |-> "none", respHeader |-> "", headers |-> "",
     mIdx |-> 0, mLen |-> 0, xIdx |-> 0, extractorResults |-> <<>>,
     result |-> [ctx |-> "", cause |-> ""], locked |-> FALSE,
     \* history of the compiled request being processed
     emitted |-> <<>>, matched |-> <<>>, builds |-> 0, evald |-> FALSE,
     \* entries the call has written to the writer
     wrote |-> 0]

Set(e, r) == ex' = [ex EXCEPT ![e] = r]

\* NewHTTPExecutor(options)
NewHTTPExecutor(e) ==
    /\ ex[e].pc = "new"
    /\ \E socksFails \in BOOLEAN :
         LET proxyURL == IF opts.ProxyURL # "" THEN ParseURL(opts.ProxyURL) ELSE NilURL
             client == makeHTTPClient(proxyURL, opts, socksFails)
         IN  IF proxyURL.err
             THEN Set(e, [ex[e] EXCEPT !.pc = "failed"])
             ELSE IF client.dial = "panic"
             THEN Set(e, [ex[e] EXCEPT !.pc = "panicked"])
             ELSE Set(e, [ex[e] EXCEPT !.pc = "idle", !.client = client,
                                       !.mutex = NewMutex(e),
                                       !.socksErr = socksFails /\ opts.ProxySocksURL # ""])
    /\ UNCHANGED <<matchers, extractors, matcherCondition, opts, locks, chain>>

(* ----------------- the client's redirect loop (SpecClient) ------------- *)
NoChain == [st |-> "idle", hop |-> 0, followed |-> 0, n |-> 0, ret |-> ""]

\* httpClient.Do(req): the first request of a chain is sent
ClientDo(e) ==
    /\ ex[e].pc = "idle"
    /\ chain.st = "idle"
    /\ chain' = [NoChain EXCEPT !.st = "following"]
    /\ UNCHANGED <<matchers, extractors, matcherCondition, opts, ex, locks>>

\* the server answers with a redirect: CheckRedirect is asked with the requests made so far
ServerRedirects(e) ==
    /\ chain.st = "following"
    /\ chain.hop < MaxHops
    /\ LET n == chain.followed + 1
           ret == makeCheckRedirectFunc(ex[e].client.follow, ex[e].client.max, n)
       IN  chain' = [st |-> IF ret = "stop" THEN "stopped" ELSE "following",
                     hop |-> chain.hop + 1,
                     followed |-> IF ret = "stop" THEN chain.followed ELSE chain.followed + 1,
                     n |-> n, ret |-> ret]
    /\ UNCHANGED <<matchers, extractors, matcherCondition, opts, ex, locks>>

\* the server answers with a final response
ServerAnswers(e) ==
    /\ chain.st = "following"
    /\ chain' = [chain EXCEPT !.st = "done"]
    /\ UNCHANGED <<matchers, extractors, matcherCondition, opts, ex, locks>>

\* the policy called on its own with any number of prior requests
CheckRedirectCall(e) ==
    /\ ex[e].pc = "idle"
    /\ chain.st = "idle"
    /\ \E n \in 0..MaxHops :
         chain' = [NoChain EXCEPT !.st = "called", !.n = n,
                     !.ret = makeCheckRedirectFunc(ex[e].client.follow, ex[e].client.max, n)]
    /\ UNCHANGED <<matchers, extractors, matcherCondition, opts, ex, locks>>

(* --------------------------- ExecuteHTTP ------------------------------ *)
NoErr == [ctx |-> "", cause |-> ""]
\* errors.Wrap(err, ctx)
Wrap(cause, ctx) == [ctx |-> ctx, cause |-> cause]

\* the executor's fields survive a call; everything of the call starts afresh
FreshCall(r, pc) ==
    [NewEx(pc) EXCEPT !.client = r.client, !.mutex = r.mutex, !.socksErr = r.socksErr]

\* compiledRequest: n requests in compilation order, each named by how many
\* requests of the list there are from it on (n, n-1, .., 1)
CompiledRequests(n) == [i \in 1..n |-> n + 1 - i]

\* ExecuteHTTP(URL) up to the call of ConfigureAutoType: MakeHTTPRequest returns
\* an error, or up to maxReq compiled requests
ExecuteHTTP(e, URL, maxReq) ==
    /\ ex[e].pc \in {"idle", "returned"}
    /\ \E n \in (-1)..maxReq :
         IF n = -1
         THEN Set(e, [FreshCall(ex[e], "returned") EXCEPT
                        !.url = URL,
                        !.result = Wrap("MakeHTTPRequest", "could not make http request")])
         ELSE Set(e, [FreshCall(ex[e], "calib") EXCEPT !.url = URL,
                                                         !.pending = CompiledRequests(n)])
    /\ UNCHANGED <<matchers, extractors, matcherCondition, opts, locks, chain>>

(* ------------------------- ConfigureAutoType -------------------------- *)
\* the two MakeHTTPRequestForAutoConfigure calls: the second assignment
\* overwrites both results of the first
CompileProbes(first, second) == [first EXCEPT !.reqs = second.reqs, !.err = second.err]

\* what MakeHTTPRequestForAutoConfigure(URL, length) can return: an error, or the
\* n probe requests of the template, of that token length
ProbeRequests(length, n, err) ==
    [reqs |-> IF err THEN <<>> ELSE [i \in 1..n |-> length], err |-> err]

\* ConfigureAutoType returns err
AfterConfigure(r, err) ==
    [r EXCEPT !.pc = "calibReturned", !.calibErr = err, !.cfgReq = <<>>, !.calIdx = 0, !.calLen = 0,
              !.first = [reqs |-> <<>>, err |-> FALSE]]

ConfigureAutoType(e, maxProbes) ==
    /\ ex[e].pc = "calib"
    /\ \E err16, err32 \in BOOLEAN, n \in 1..maxProbes :
         LET first == ProbeRequests(ProbeLen16, n, err16)
             c == CompileProbes(first, ProbeRequests(ProbeLen32, n, err32))
         IN  IF c.err
             THEN Set(e, AfterConfigure(ex[e],
                      Wrap("MakeHTTPRequestForAutoConfigure",
                           "could not make auto configure http request")))
             ELSE Set(e, [ex[e] EXCEPT !.pc = "calibLoop", !.cfgReq = c.reqs, !.first = first,
                                       !.calIdx = 1, !.calLen = Len(matchers)])
    /\ UNCHANGED <<matchers, extractors, matcherCondition, opts, locks, chain>>

\* m := &matchers.Matcher{}
DeclareMatcher_Allocated == ZeroMatcher
\* var m *matchers.Matcher
DeclareMatcher == NilMatcher

\* what one calibration probe can meet
ProbeOutcomes ==
    {[fail |-> "send", size |-> 0, status |-> 0], [fail |-> "read", size |-> 0, status |-> 0],
     [fail |-> "", size |-> 5, status |-> 404], [fail |-> "", size |-> 7, status |-> 200]}

\* the probe loop of one calibration matcher: the inner loop over m.Size only
\* continues itself, so every size is appended
RECURSIVE RunProbes(_, _, _)
RunProbes(m, outs, i) ==
    IF i > Len(outs) THEN [m |-> m, err |-> NoErr]
    ELSE IF outs[i].fail = "send" THEN [m |-> m, err |-> Wrap("Do", "could not make http request")]
    ELSE IF outs[i].fail = "read" THEN [m |-> m, err |-> Wrap("ReadAll", "could not read http body")]
    ELSE RunProbes([m EXCEPT !.Size = Append(@, outs[i].size),
                             !.Status = Append(@, outs[i].status)], outs, i + 1)

\* one iteration of the loop over e.httpRequest.Matchers (its length is taken
\* when the loop starts), or the return after the last one
ConfigureAutoTypeStep(e) ==
    /\ ex[e].pc = "calibLoop"
    /\ LET r == ex[e]
           m == DeclareMatcher
       IN  IF r.calIdx > r.calLen
           THEN /\ Set(e, AfterConfigure(r, NoErr))
                /\ UNCHANGED matchers
           ELSE IF matchers[r.calIdx].Type # "auto"
           THEN /\ Set(e, [r EXCEPT !.calIdx = @ + 1])
                /\ UNCHANGED matchers
           ELSE IF m.Type = "nil"
           \* m.Target = URL on a nil pointer: the call panics
           THEN /\ Set(e, [r EXCEPT !.pc = "panicked"])
                /\ UNCHANGED matchers
           ELSE \E outs \in [1..Len(r.cfgReq) -> ProbeOutcomes] :
                  LET p == RunProbes([m EXCEPT !.Target = r.url], outs, 1)
                  IN  /\ matchers' = Append(matchers, p.m)
                      /\ IF p.err # NoErr
                         THEN Set(e, AfterConfigure(r, p.err))
                         ELSE Set(e, [r EXCEPT !.calIdx = @ + 1])
    /\ UNCHANGED <<extractors, matcherCondition, opts, locks, chain>>

\* e.ConfigureAutoType(URL) as a statement of ExecuteHTTP: what it returned is
\* dropped and the main loop starts
DropConfigureResult(e) ==
    /\ ex[e].pc = "calibReturned"
    /\ Set(e, [ex[e] EXCEPT !.pc = "send", !.calibErr = NoErr])
    /\ UNCHANGED <<matchers, extractors, matcherCondition, opts, locks, chain>>

(* --------------------------- the main loop ---------------------------- *)
\* if resp != nil { resp.Body.Close() } after a failed Do
BodyAfterSendError(body) == IF body = "open" THEN "closed" ELSE body
\* the read error path returning without closing the body
BodyAfterReadError_Leak(body) == body
\* io.Copy(ioutil.Discard, resp.Body); resp.Body.Close() after a failed ReadAll
BodyAfterReadError(body) == "closed"
\* resp.Body.Close() after a successful ReadAll
BodyAfterRead(body) == "closed"

\* a loop that keeps the error of a failed request and goes on with the next one
OnRequestError_GoesOn(r, err) == [r EXCEPT !.pc = "send", !.result = err]
\* return errors.Wrap(err, ...) out of the main loop
OnRequestError(r, err) == [r EXCEPT !.pc = "returned", !.result = err]

\* a loop taking the last request of the list first
TakeRequest_Last(reqs) ==
    [req |-> reqs[Len(reqs)], rest |-> SubSeq(reqs, 1, Len(reqs) - 1)]
\* for _, req := range compiledRequest: the first request not yet taken
TakeRequest(reqs) == [req |-> Head(reqs), rest |-> Tail(reqs)]

\* e.httpClient.Do(req) of the next compiled request and its error handling
Send(e) ==
    /\ ex[e].pc = "send"
    /\ ex[e].pending # <<>>
    /\ LET t == TakeRequest(ex[e].pending)
           r == [ex[e] EXCEPT !.pending = t.rest, !.req = t.req, !.emitted = <<>>, !.matched = <<>>, !.builds = 0,
                              !.evald = FALSE, !.headers = "", !.respHeader = "",
                              !.extractorResults = <<>>, !.mIdx = 0, !.xIdx = 0]
       IN  \E out \in {"ok", "errWithResp", "errNoResp"} :
             IF out = "ok"
             THEN Set(e, [r EXCEPT !.pc = "read", !.body = "open"])
             ELSE Set(e, OnRequestError(
                      [r EXCEPT !.body = BodyAfterSendError(IF out = "errWithResp" THEN "open" ELSE "none")],
                      Wrap("Do", "could not make http request")))
    /\ UNCHANGED <<matchers, extractors, matcherCondition, opts, locks, chain>>

\* ioutil.ReadAll(resp.Body), its error handling, and the start of the matcher loop
Read(e) ==
    /\ ex[e].pc = "read"
    /\ \E ok \in BOOLEAN :
         IF ok
         THEN Set(e, [ex[e] EXCEPT !.pc = "match", !.body = BodyAfterRead(@),
                                   !.respHeader = Unbuilt, !.headers = "",
                                   !.mIdx = 1, !.mLen = Len(matchers)])
         ELSE Set(e, OnRequestError([ex[e] EXCEPT !.body = BodyAfterReadError(@)],
                                    Wrap("ReadAll", "could not read http body")))
    /\ UNCHANGED <<matchers, extractors, matcherCondition, opts, locks, chain>>

\* no target filter at all
Applicable_Always(m, URL) == TRUE
\* !(matcher.Target != "" && matcher.Target != URL)
Applicable(m, URL) == ~(m.Target # "" /\ m.Target # URL)
\* part == AllPart || part == HeaderPart && headers == ""   (&& binds tighter than ||)
NeedsHeaders(part, headers) == part = AllPart \/ (part = HeaderPart /\ headers = "")
\* a failed Match never leaving the matcher loop
OnMatchFail_NeverAborts(cond) == "nextMatcher"
\* a failed Match leaving the matcher loop under either condition
OnMatchFail_AlwaysAborts(cond) == "nextRequest"
\* a failed Match: continue mainLoop under AND, the next matcher otherwise
OnMatchFail(cond) == IF cond = ANDCondition THEN "nextRequest" ELSE "nextMatcher"
\* a successful Match written at once under OR, with or without extractors
EmitPerMatcher_AnyOR(cond, nExtractors) == cond = ORCondition
\* a successful Match is written at once under OR without extractors
EmitPerMatcher(cond, nExtractors) == cond = ORCondition /\ nExtractors = 0
\* the final output written under AND only
EmitFinal_ANDOnly(cond, nExtractors) == cond = ANDCondition
\* the final output is written with extractors, or under AND
EmitFinal(cond, nExtractors) == nExtractors > 0 \/ cond = ANDCondition

\* the function returning nil where the loop should go on
NextRequest_Return(r) ==
    [r EXCEPT !.pc = "returned", !.result = [ctx |-> "", cause |-> ""], !.evald = TRUE,
              !.headers = "", !.respHeader = "", !.extractorResults = <<>>,
              !.mIdx = 0, !.xIdx = 0]
\* the loop goes on to the next compiled request
NextRequest(r) ==
    [r EXCEPT !.pc = "send", !.evald = TRUE, !.headers = "",
              !.respHeader = "", !.extractorResults = <<>>, !.mIdx = 0, !.xIdx = 0]

\* headersToString(resp.Header): the same text every time it is built
HeaderChoices(r, part) ==
    IF NeedsHeaders(part, r.headers) /\ r.respHeader = Unbuilt THEN HeaderTexts
    ELSE {r.respHeader}

WithHeaders(r, part, text) ==
    IF NeedsHeaders(part, r.headers)
    THEN [r EXCEPT !.headers = text, !.respHeader = text, !.builds = @ + 1]
    ELSE r

\* one iteration of the loop over e.httpRequest.Matchers, or its end
MatchStep(e) ==
    /\ ex[e].pc = "match"
    /\ LET r == ex[e]
       IN  IF r.mIdx > r.mLen
           THEN Set(e, [r EXCEPT !.pc = "extract", !.xIdx = 1])
           ELSE IF ~Applicable(matchers[r.mIdx], r.url)
           THEN Set(e, [r EXCEPT !.mIdx = @ + 1])
           ELSE \E ok \in BOOLEAN, text \in HeaderChoices(r, matchers[r.mIdx].Part) :
                  LET r1 == [WithHeaders(r, matchers[r.mIdx].Part, text) EXCEPT
                               !.matched = Append(@, [m |-> r.mIdx, ok |-> ok])]
                  IN  IF ~ok
                      THEN IF OnMatchFail(matcherCondition) = "nextRequest"
                           THEN Set(e, NextRequest(r1))
                           ELSE Set(e, [r1 EXCEPT !.mIdx = @ + 1])
                      ELSE IF EmitPerMatcher(matcherCondition, Len(extractors))
                           \* e.writeOutputHTTP(req, matcher, nil)
                           THEN Set(e, [r1 EXCEPT !.pc = "writeM",
                                          !.emitted = Append(@, [matcher |-> r.mIdx, results |-> <<>>])])
                           ELSE Set(e, [r1 EXCEPT !.mIdx = @ + 1])
    /\ UNCHANGED <<matchers, extractors, matcherCondition, opts, locks, chain>>

\* one iteration of the loop over e.httpRequest.Extractors, or its end and the
\* final output
ExtractStep(e) ==
    /\ ex[e].pc = "extract"
    /\ LET r == ex[e]
       IN  IF r.xIdx > Len(extractors)
           THEN IF EmitFinal(matcherCondition, Len(extractors))
                \* e.writeOutputHTTP(req, nil, extractorResults)
                THEN Set(e, [r EXCEPT !.pc = "writeF",
                               !.emitted = Append(@, [matcher |-> 0, results |-> r.extractorResults])])
                ELSE Set(e, NextRequest(r))
           ELSE \E out \in ExtractOutputs, text \in HeaderChoices(r, extractors[r.xIdx].Part) :
                  Set(e, [WithHeaders(r, extractors[r.xIdx].Part, text) EXCEPT
                            !.extractorResults = @ \o out, !.xIdx = @ + 1])
    /\ UNCHANGED <<matchers, extractors, matcherCondition, opts, locks, chain>>

\* the loop is over: return nil
ReturnNil(e) ==
    /\ ex[e].pc = "send"
    /\ ex[e].pending = <<>>
    /\ Set(e, [ex[e] EXCEPT !.pc = "returned", !.result = NoErr])
    /\ UNCHANGED <<matchers, extractors, matcherCondition, opts, locks, chain>>

(* ------------------------------ output -------------------------------- *)
\* writeOutputHTTP: e.outputMutex.Lock()
WriteLock(e) ==
    /\ ex[e].pc \in {"writeM", "writeF"}
    /\ ~ex[e].locked
    /\ ex[e].mutex \notin locks
    /\ locks' = locks \cup {ex[e].mutex}
    /\ Set(e, [ex[e] EXCEPT !.locked = TRUE])
    /\ UNCHANGED <<matchers, extractors, matcherCondition, opts, chain>>

\* writeOutputHTTP: the entry is written, e.outputMutex.Unlock(), and the call returns
WriteUnlock(e) ==
    /\ ex[e].pc \in {"writeM", "writeF"}
    /\ ex[e].locked
    /\ locks' = locks \ {ex[e].mutex}
    /\ IF ex[e].pc = "writeM"
       THEN Set(e, [ex[e] EXCEPT !.pc = "match", !.locked = FALSE, !.mIdx = @ + 1,
                                 !.wrote = @ + 1])
       ELSE Set(e, NextRequest([ex[e] EXCEPT !.locked = FALSE, !.wrote = @ + 1]))
    /\ UNCHANGED <<matchers, extractors, matcherCondition, opts, chain>>

\* Close: e.outputMutex.Lock()
CloseLock(e) ==
    /\ ex[e].pc \in {"idle", "returned"}
    /\ ex[e].mutex \notin locks
    /\ locks' = locks \cup {ex[e].mutex}
    /\ Set(e, [FreshCall(ex[e], "flushing") EXCEPT !.locked = TRUE])
    /\ UNCHANGED <<matchers, extractors, matcherCondition, opts, chain>>

\* Close: e.writer.Flush(); e.outputMutex.Unlock()
CloseUnlock(e) ==
    /\ ex[e].pc = "flushing"
    /\ locks' = locks \ {ex[e].mutex}
    /\ Set(e, [ex[e] EXCEPT !.pc = "closed", !.locked = FALSE])
    /\ UNCHANGED <<matchers, extractors, matcherCondition, opts, chain>>

\* the executor is using the writer (every executor is given options.Writer)
InWriter(e) == ex[e].locked

(* -------------------------- specifications ---------------------------- *)
DefaultOpts ==
    [ProxyURL |-> "", ProxySocksURL |-> "",
     HTTPRequest |-> [Redirects |-> FALSE, MaxRedirects |-> 0]]

\* Spec: one executor, every request spec within the bounds
Init ==
    /\ matchers \in SeqsUpTo(MatcherKinds, MaxMatchers)
    /\ extractors \in SeqsUpTo(ExtractorKinds, MaxExtractors)
    /\ matcherCondition \in {ANDCondition, ORCondition}
    /\ opts = DefaultOpts
    /\ ex = [e \in {1} |-> NewEx("new")]
    /\ locks = {}
    /\ chain = NoChain

Next ==
    \E e \in {1} :
        \/ NewHTTPExecutor(e)
        \/ \E u \in URLs : ExecuteHTTP(e, u, MaxRequests)
        \/ ConfigureAutoType(e, MaxProbes)
        \/ ConfigureAutoTypeStep(e)
        \/ DropConfigureResult(e)
        \/ Send(e)
        \/ Read(e)
        \/ MatchStep(e)
        \/ ExtractStep(e)
        \/ ReturnNil(e)
        \/ WriteLock(e)
        \/ WriteUnlock(e)
        \/ CloseLock(e)
        \/ CloseUnlock(e)

Spec == Init /\ [][Next]_vars

\* SpecClient: construction over every proxy option, then the redirect policy
InitClient ==
    /\ matchers = <<>>
    /\ extractors = <<>>
    /\ matcherCondition = ORCondition
    /\ opts \in [ProxyURL : ProxyValues, ProxySocksURL : SocksValues,
                 HTTPRequest : [Redirects : BOOLEAN, MaxRedirects : (-1)..MaxRedirectsOpt]]
    /\ ex = [e \in {1} |-> NewEx("new")]
    /\ locks = {}
    /\ chain = NoChain

NextClient ==
    \E e \in {1} :
        \/ NewHTTPExecutor(e)
        \/ ClientDo(e)
        \/ ServerRedirects(e)
        \/ ServerAnswers(e)
        \/ CheckRedirectCall(e)

SpecClient == InitClient /\ [][NextClient]_vars

\* SpecConc: executors built from the same options run one target each
ConcURL(e) == IF e = 1 THEN "u1" ELSE IF e = 2 THEN "u2" ELSE "u3"

InitConc ==
    /\ matchers \in SeqsUpTo(PlainMatcherKinds, MaxConcMatchers)
    /\ extractors = <<>>
    /\ matcherCondition \in {ANDCondition, ORCondition}
    /\ opts = DefaultOpts
    /\ ex = [e \in 1..NumExecutors |-> NewEx("new")]
    /\ locks = {}
    /\ chain = NoChain

NextConc ==
    \E e \in 1..NumExecutors :
        \/ NewHTTPExecutor(e)
        \/ ExecuteHTTP(e, ConcURL(e), 1)
        \/ ConfigureAutoType(e, 1)
        \/ ConfigureAutoTypeStep(e)
        \/ DropConfigureResult(e)
        \/ Send(e)
        \/ Read(e)
        \/ MatchStep(e)
        \/ ExtractStep(e)
        \/ ReturnNil(e)
        \/ WriteLock(e)
        \/ WriteUnlock(e)
        \/ CloseLock(e)
        \/ CloseUnlock(e)

SpecConc == InitConc /\ [][NextConc]_vars

(* ------------------------------ claims -------------------------------- *)
\* the matcher at position j is meant for the URL of r's call
IsFor(j, r) == matchers[j].Target = "" \/ matchers[j].Target = r.url
\* Match was called on matcher j for the current response and returned true
Passed(j, r) == \E k \in 1..Len(r.matched) : r.matched[k] = [m |-> j, ok |-> TRUE]
\* every matcher meant for the URL returned true
AllPassed(r) == \A j \in 1..r.mLen : IsFor(j, r) => Passed(j, r)

\* C1: under AND, once a compiled request has been evaluated, writeOutputHTTP
\* was called for it if and only if every matcher meant for the URL returned
\* true, and not at all when one of them returned false.
C1_ANDEmitsIffAllPass ==
    \A e \in DOMAIN ex :
        (matcherCondition = ANDCondition /\ ex[e].evald) =>
            /\ Len(ex[e].emitted) > 0 <=> AllPassed(ex[e])
            /\ ~AllPassed(ex[e]) => ex[e].emitted = <<>>

C1_Witness ==
    \E e \in DOMAIN ex :
        /\ matcherCondition = ANDCondition /\ ex[e].evald
        /\ Len(ex[e].matched) = 2 /\ Len(ex[e].emitted) = 1

\* C2: under OR without extractors, once a compiled request has been evaluated,
\* every matcher meant for the URL was asked exactly once, and the outputs are
\* exactly one per matcher that returned true, in order, each naming its matcher.
C2_OREmitsEveryPass ==
    \A e \in DOMAIN ex :
        (matcherCondition = ORCondition /\ Len(extractors) = 0 /\ ex[e].evald) =>
            LET r == ex[e]
                passed == SelectSeq(r.matched, LAMBDA x : x.ok)
            IN  /\ Len(r.emitted) = Len(passed)
                /\ \A k \in 1..Len(passed) :
                     r.emitted[k] = [matcher |-> passed[k].m, results |-> <<>>]
                /\ \A j \in 1..r.mLen :
                     IsFor(j, r) => Cardinality({k \in 1..Len(r.matched) : r.matched[k].m = j}) = 1

C2_Witness ==
    \E e \in DOMAIN ex :
        /\ matcherCondition = ORCondition /\ extractors = <<>> /\ ex[e].evald
        /\ ex[e].matched = <<[m |-> 1, ok |-> FALSE], [m |-> 2, ok |-> TRUE]>>
        /\ ex[e].emitted = <<[matcher |-> 2, results |-> <<>>]>>

\* C3: the header text of a response is built at most once, and not at all
\* when no matcher or extractor has the header or the all part.
C3_HeadersBuiltAtMostOnce ==
    \A e \in DOMAIN ex :
        /\ ex[e].builds <= 1
        /\ (/\ \A j \in 1..Len(matchers) : matchers[j].Part = BodyPart
            /\ \A k \in 1..Len(extractors) : extractors[k].Part = BodyPart)
           => ex[e].builds = 0

\* C4: no two executors use the writer they share at the same time.
C4_WriterAccessExclusive ==
    \A e1, e2 \in DOMAIN ex : e1 # e2 => ~(InWriter(e1) /\ InWriter(e2))

\* C5: with followRedirects false every call of the redirect policy returns
\* stop, whatever maxRedirects and the number of prior requests, so that no
\* redirect is ever followed.
C5_NoRedirectWhenDisabled ==
    \A e \in DOMAIN ex :
        (chain.ret # "" /\ ~ex[e].client.follow) =>
            chain.ret = "stop" /\ chain.followed = 0

C5_Witness ==
    \E e \in DOMAIN ex :
        /\ ~ex[e].client.follow /\ ex[e].client.max > 1
        /\ chain.st = "stopped" /\ chain.hop = 1 /\ chain.n = 1

\* C6: with followRedirects true the policy, asked at each hop with the
\* requests made so far, allows exactly 10 redirects when maxRedirects is 0
\* and exactly N when it is N > 0, and stops at the hop after.
C6_RedirectLimit ==
    \A e \in DOMAIN ex :
        LET c == ex[e].client
            allowed == IF c.max = 0 THEN 10 ELSE c.max
        IN  (c.follow /\ c.max >= 0 /\ chain.st \in {"following", "stopped", "done"}
                 /\ chain.ret # "") =>
                /\ chain.ret = "follow" => chain.n <= allowed /\ chain.followed = chain.n
                /\ chain.ret = "stop" =>
                     chain.n = allowed + 1 /\ chain.followed = allowed /\ chain.hop = allowed + 1

C6_Witness ==
    \E e \in DOMAIN ex :
        /\ ex[e].client.follow /\ ex[e].client.max = 0
        /\ chain.st = "stopped" /\ chain.followed = 10 /\ chain.hop = 11

\* C7: a response body is open only while it is being read: it is closed when
\* the loop sends the next request and when ExecuteHTTP returns.
C7_BodiesClosed ==
    \A e \in DOMAIN ex : ex[e].pc # "read" => ex[e].body # "open"

C7_Witness ==
    \E e \in DOMAIN ex :
        /\ ex[e].pc = "returned" /\ ex[e].body = "closed"
        /\ ex[e].result.ctx = "could not read http body"

\* C8: Match is called only on matchers whose target is empty or the URL of
\* the call, only such matchers are named in an output, and under AND the
\* matchers of another target do not keep the output from being written.
C8_TargetFilterSkips ==
    \A e \in DOMAIN ex :
        LET r == ex[e]
        IN  /\ \A k \in 1..Len(r.matched) : IsFor(r.matched[k].m, r)
            /\ \A k \in 1..Len(r.emitted) :
                 r.emitted[k].matcher # 0 => IsFor(r.emitted[k].matcher, r)
            /\ (r.evald /\ matcherCondition = ANDCondition /\ AllPassed(r)) =>
                 Len(r.emitted) = 1

C8_Witness ==
    \E e \in DOMAIN ex :
        /\ ex[e].evald /\ matcherCondition = ANDCondition
        /\ \E j \in 1..ex[e].mLen : ~IsFor(j, ex[e])
        /\ Len(ex[e].matched) = 1 /\ Len(ex[e].emitted) = 1

\* an executor's call is going through the shared matcher collection
Iterating(e) == ex[e].pc \in {"calibLoop", "match", "writeM"}
\* an executor's call is under way
Running(e) == ex[e].pc \notin {"new", "idle", "returned", "flushing", "closed", "failed", "panicked"}

\* C9: concurrent calls for different targets on one request spec are safe:
\* no call changes the shared matcher collection while another call is going
\* through it, and no call brings the process down under another call.
C9_ConcurrentCallsSafe ==
    [][/\ matchers' # matchers => Cardinality({e \in DOMAIN ex : Iterating(e)}) <= 1
       /\ \A e \in DOMAIN ex :
            (ex[e].pc # "panicked" /\ ex'[e].pc = "panicked") =>
                \A o \in DOMAIN ex \ {e} : ~Running(o)]_vars

\* C10: with a SOCKS5 URL that does not parse, or a dialer that cannot be
\* built, construction still returns a client, one that dials directly.
C10_MalformedSocksFallsBack ==
    \A e \in DOMAIN ex :
        (/\ ex[e].pc # "new"
         /\ opts.ProxySocksURL # ""
         /\ ~ParseURL(opts.ProxyURL).err
         /\ (ParseURL(opts.ProxySocksURL).err \/ ex[e].socksErr)) =>
            /\ ex[e].pc = "idle"
            /\ ex[e].client.dial = "direct"

\* C11: ConfigureAutoType ends by returning, and while it goes through the
\* matchers it was entered with it has appended exactly one matcher for each
\* auto matcher it has passed, a matcher of its own with Target = URL; it does
\* not go through the matchers it appended.
C11_CalibrationAppendsPerAuto ==
    \A e \in DOMAIN ex :
        LET r == ex[e]
            passed == {j \in 1..(r.calIdx - 1) : matchers[j].Type = "auto"}
        IN  /\ r.pc # "panicked"
            /\ r.pc = "calibLoop" =>
                 /\ r.calIdx <= r.calLen + 1
                 /\ Len(matchers) = r.calLen + Cardinality(passed)
                 /\ \A k \in (r.calLen + 1)..Len(matchers) :
                      matchers[k].Target = r.url /\ matchers[k].Type = ZeroMatcher.Type

\* C12: calibration goes into its probe loop only when both compilations
\* succeeded (a failure of either one makes it return an error), and the
\* requests it then sends are the probes of token length 16 and those of
\* token length 32.
C12_BothProbesCompiledAndSent ==
    \A e \in DOMAIN ex :
        LET r == ex[e]
        IN  r.pc = "calibLoop" =>
              /\ ~r.first.err
              /\ \A i \in 1..Len(r.first.reqs) :
                   \E k \in 1..Len(r.cfgReq) : r.cfgReq[k] = r.first.reqs[i]
              /\ \E k \in 1..Len(r.cfgReq) : r.cfgReq[k] = ProbeLen16
              /\ \E k \in 1..Len(r.cfgReq) : r.cfgReq[k] = ProbeLen32

\* a sequence without a repeated element
NoDuplicates(s) == \A i, j \in 1..Len(s) : s[i] = s[j] => i = j
\* the call of e is calibrating an auto matcher
AtAutoMatcher(e) ==
    ex[e].calIdx \in 1..ex[e].calLen /\ matchers[ex[e].calIdx].Type = "auto"

\* C13: the calibration of an auto matcher records its observations, and the
\* Size list of every matcher then holds no body length twice.
C13_SizesDeduplicated ==
    /\ \A j \in 1..Len(matchers) : NoDuplicates(matchers[j].Size)
    /\ \A e \in DOMAIN ex : AtAutoMatcher(e) => ex[e].pc = "calibLoop"

\* C14: a calibration that meets failing probes returns (it is not cut short),
\* with "could not make http request" for a failed send and "could not read
\* http body" for a failed read; whatever ConfigureAutoType returned,
\* ExecuteHTTP drops it and starts the main loop with every compiled request
\* still to be sent.
C14_CalibrationFailureIgnored ==
    /\ [](\A e \in DOMAIN ex :
            /\ ex[e].pc = "panicked" => ~AtAutoMatcher(e)
            /\ ex[e].calibErr.cause = "Do" => ex[e].calibErr.ctx = "could not make http request"
            /\ ex[e].calibErr.cause = "ReadAll" => ex[e].calibErr.ctx = "could not read http body")
    /\ [][\A e \in DOMAIN ex :
            (ex[e].pc = "calibReturned" /\ ex'[e] # ex[e]) =>
                /\ ex'[e].pc = "send"
                /\ ex'[e].pending = ex[e].pending
                /\ ex'[e].result = NoErr]_vars

\* the call of e returned the error of a failed send or read of the main loop
RequestFailed(r) == r.pc = "returned" /\ r.result.cause \in {"Do", "ReadAll"}

\* C15: when the send or the read of a compiled request fails, ExecuteHTTP
\* returns the error in that very step, with the context of the failed
\* operation: no matcher or extractor has been evaluated and nothing has been
\* written for that request, none of the requests still pending is sent
\* afterwards, and what the call had written before stays written.
C15_RequestFailureReturnsAtOnce ==
    /\ [](\A e \in DOMAIN ex :
            RequestFailed(ex[e]) =>
                /\ ex[e].matched = <<>> /\ ex[e].emitted = <<>> /\ ex[e].builds = 0
                /\ ex[e].extractorResults = <<>> /\ ~ex[e].evald
                /\ ex[e].result.ctx = IF ex[e].result.cause = "Do"
                                      THEN "could not make http request"
                                      ELSE "could not read http body")
    /\ [][\A e \in DOMAIN ex :
            /\ (ex'[e].result # ex[e].result /\ ex'[e].result.cause \in {"Do", "ReadAll"}) =>
                 /\ ex[e].pc \in {"send", "read"}
                 /\ ex'[e].pc = "returned"
                 /\ ex'[e].wrote = ex[e].wrote
            /\ RequestFailed(ex[e]) => ex'[e].pc \in {"returned", "calib", "flushing"}
            /\ ex[e].pc \notin {"idle", "returned"} => ex'[e].wrote >= ex[e].wrote]_vars

C15_Witness ==
    \E e \in DOMAIN ex :
        /\ RequestFailed(ex[e]) /\ ex[e].result.cause = "ReadAll"
        /\ ex[e].wrote >= 1 /\ ex[e].req = 1

\* C16: the compiled requests are sent one at a time in compilation order: a
\* request is taken only when the one before it has been fully evaluated and
\* its outputs written, it is the first of those not yet sent, and the ones
\* left all come after it; the outputs of one request that name a matcher
\* follow the order of the matcher list.
C16_RequestsInOrder ==
    /\ [](\A e \in DOMAIN ex :
            LET r == ex[e]
            IN  /\ r.pending = CompiledRequests(Len(r.pending))
                /\ r.req # 0 => r.req = Len(r.pending) + 1
                /\ \A k, l \in 1..Len(r.emitted) :
                     (k < l /\ r.emitted[k].matcher # 0 /\ r.emitted[l].matcher # 0) =>
                         r.emitted[k].matcher < r.emitted[l].matcher)
    /\ [][\A e \in DOMAIN ex :
            (ex'[e].req # ex[e].req /\ ex'[e].req # 0) =>
                /\ ex[e].pc = "send" /\ ~ex[e].locked
                /\ ex[e].req = 0 \/ ex[e].evald
                /\ ex'[e].req = Head(ex[e].pending)
                /\ ex'[e].pending = Tail(ex[e].pending)]_vars

C16_Witness ==
    \E e \in DOMAIN ex :
        /\ ex[e].req = 1 /\ ex[e].pending = <<>> /\ ex[e].evald
        /\ Len(ex[e].emitted) = 2 /\ ex[e].wrote = 4

\* the call of e is at the end of the extractor loop of a request, about to
\* decide on the final output
AfterExtractors(e) == ex[e].pc = "extract" /\ ex[e].xIdx > Len(extractors)
\* the step of e writes the final output, with what the extractors collected
WritesFinal(e) ==
    ex'[e].emitted = Append(ex[e].emitted, [matcher |-> 0, results |-> ex[e].extractorResults])
\* each step of the extractor loop puts the whole output of the next extractor,
\* as produced, behind what was collected before
CollectsInOrder(e) ==
    (ex[e].pc = "extract" /\ ~AfterExtractors(e) /\ ex'[e] # ex[e]) =>
        /\ ex'[e].pc = "extract" /\ ex'[e].xIdx = ex[e].xIdx + 1
        /\ \E out \in ExtractOutputs :
             ex'[e].extractorResults = ex[e].extractorResults \o out

ReturnedErrors ==
    {Wrap("MakeHTTPRequest", "could not make http request"),
     Wrap("Do", "could not make http request"),
     Wrap("ReadAll", "could not read http body")}

\* C18: a call of ExecuteHTTP ends by returning. It returns nil when the
\* compilation and every send and read succeeded, only after every compiled
\* request has been sent and evaluated, and writing an output never ends the
\* call; it returns the error of a failed compilation straight away, with no
\* calibration run and no request sent.
C18_ReturnsNilWhenAllSucceed ==
    /\ [](\A e \in DOMAIN ex :
            LET r == ex[e]
            IN  /\ r.pc = "panicked" => r.url = ""
                /\ r.pc = "returned" =>
                     /\ r.result = NoErr \/ r.result \in ReturnedErrors
                     /\ r.result = NoErr => r.pending = <<>> /\ (r.req = 0 \/ r.evald)
                     /\ r.result.cause = "MakeHTTPRequest" =>
                          r.req = 0 /\ r.pending = <<>> /\ r.body = "none" /\ r.wrote = 0)
    /\ [][\A e \in DOMAIN ex :
            /\ (ex'[e].pc = "returned" /\ ex'[e].result.cause = "MakeHTTPRequest"
                  /\ ex'[e] # ex[e]) => ex[e].pc \in {"idle", "returned"}
            /\ ex[e].pc \in {"writeM", "writeF"} =>
                 ex'[e].pc \in {"writeM", "writeF", "match", "send"}]_vars

\* under AND the last Match asked for the current request returned false
Aborted(r) ==
    /\ matcherCondition = ANDCondition
    /\ r.matched # <<>> /\ ~r.matched[Len(r.matched)].ok

\* C19: under AND, a Match that returns false ends the work on that request:
\* no matcher is asked after it, no extractor is run and nothing is written for
\* the request, and the loop is back at taking the next compiled request with
\* every pending request still to be sent; the call returns only when none is
\* left.
C19_ANDFailureSkipsToNextRequest ==
    /\ [](\A e \in DOMAIN ex :
            LET r == ex[e]
            IN  /\ matcherCondition = ANDCondition =>
                     \A k \in 1..(Len(r.matched) - 1) : r.matched[k].ok
                /\ Aborted(r) =>
                     /\ r.emitted = <<>> /\ r.extractorResults = <<>> /\ r.xIdx = 0
                     /\ r.evald
                     /\ r.pc \in {"send", "returned"}
                     /\ r.pc = "returned" => r.result = NoErr /\ r.pending = <<>>)
    /\ [][\A e \in DOMAIN ex :
            (~Aborted(ex[e]) /\ Aborted(ex'[e])) =>
                /\ ex'[e].pc = "send"
                /\ ex'[e].pending = ex[e].pending
                /\ ex'[e].wrote = ex[e].wrote]_vars

C19_Witness ==
    \E e \in DOMAIN ex :
        /\ Aborted(ex[e]) /\ ex[e].mLen = 2 /\ Len(extractors) = 1
        /\ ex[e].matched = <<[m |-> 1, ok |-> FALSE]>>
        /\ ex[e].pc = "send" /\ ex[e].pending = <<1>>

\* outputs of the current request that name a matcher / that name none
PerMatcherOutputs(r) == {k \in 1..Len(r.emitted) : r.emitted[k].matcher # 0}
FinalOutputs(r) == {k \in 1..Len(r.emitted) : r.emitted[k].matcher = 0}

\* C20: for one compiled request the outputs naming a matcher and the final
\* output exclude each other and there is at most one final output; an output
\* names a matcher only under OR with no extractor configured, and a final
\* output is written only under AND or with at least one extractor configured.
C20_OutputKindsExclusive ==
    \A e \in DOMAIN ex :
        LET r == ex[e]
        IN  /\ PerMatcherOutputs(r) = {} \/ FinalOutputs(r) = {}
            /\ Cardinality(FinalOutputs(r)) <= 1
            /\ PerMatcherOutputs(r) # {} =>
                 matcherCondition = ORCondition /\ Len(extractors) = 0
            /\ FinalOutputs(r) # {} =>
                 matcherCondition = ANDCondition \/ Len(extractors) > 0

C20_Witness ==
    \E e \in DOMAIN ex :
        /\ matcherCondition = ORCondition /\ Len(extractors) = 1 /\ ex[e].evald
        /\ \E k \in 1..Len(ex[e].matched) : ex[e].matched[k].ok
        /\ Cardinality(FinalOutputs(ex[e])) = 1 /\ PerMatcherOutputs(ex[e]) = {}
====
